---- MODULE Spec2Model ----
(***************************************************************************)
(* SafetyVision: the alert manager (communication/alert_system.py) and the *)
(* emergency stop system (navigation/emergency_stop.py) as state machines. *)
(*                                                                         *)
(* Both classes are asyncio code: a coroutine runs without interruption    *)
(* from one suspending await to the next, so every action below is one     *)
(* such stretch.  In AlertManager the suspending awaits are the sleep of   *)
(* _auto_escalate_alert and the asyncio.gather of _deliver_alert; in       *)
(* EmergencyStopSystem they are the awaits of the registered callbacks.    *)
(***************************************************************************)
EXTENDS Integers, Sequences, FiniteSets, TLC

VARIABLES
    now,                  \* the clock, in whole seconds (datetime.now(), asyncio.sleep)
    active_alerts,        \* AlertManager.active_alerts: alert id -> Alert
    acknowledged_alerts,  \* AlertManager.acknowledged_alerts: the ids that have an entry
    subscriptions,        \* AlertManager.subscriptions
    escalation_tasks,     \* AlertManager.escalation_tasks: alert id -> index in timers
    alert_history,        \* AlertManager.alert_history
    timers,               \* the asyncio tasks running _auto_escalate_alert; owner is the
                          \* send_alert invocation that created the task
    sends,                \* the send_alert invocations, sends[i] created alert_history[i]
    failing_channels,     \* the channels whose adapter raises
    last_call,            \* how the operation that ran last ended
    is_emergency_active,  \* EmergencyStopSystem.is_emergency_active
    current_emergency,    \* EmergencyStopSystem.current_emergency
    emergency_history,    \* EmergencyStopSystem.emergency_history
    stop_callbacks,       \* EmergencyStopSystem.stop_callbacks
    alert_callbacks,      \* EmergencyStopSystem.alert_callbacks
    runs,                 \* the response sequences started, and how far each has run
    es_call               \* the EmergencyStopSystem operation that ran last

amvars == <<now, active_alerts, acknowledged_alerts, subscriptions, escalation_tasks,
            alert_history, timers, sends, failing_channels, last_call>>

esvars == <<is_emergency_active, current_emergency, emergency_history, stop_callbacks,
            alert_callbacks, runs, es_call>>

vars == <<amvars, esvars>>

----------------------------------------------------------------------------
(* Bounds of the model *)

MaxAlerts == 3
MaxTime == 1
MaxSubscriptions == 4
MaxRuns == 3
MaxPolicyAlerts == 1

----------------------------------------------------------------------------
(* AlertSeverity, alert_system.py:20-26 *)

INFO == 1
WARNING == 2
ERROR == 3
CRITICAL == 4
EMERGENCY == 5

AlertSeverity == {INFO, WARNING, ERROR, CRITICAL, EMERGENCY}

\* Python's None where an int is expected (auto_escalate_after)
None == -1

\* No alert id: the message of the alert names no other alert
NoId == <<>>

\* escalation_times of send_alert, in seconds
EscalateEmergency == 60
EscalateCritical == 300
EscalateError == 900
EscalateWarning == 1800

\* The table in minutes
escalation_times_minutes(severity) ==
    CASE severity = EMERGENCY -> 1
      [] severity = CRITICAL -> 5
      [] severity = ERROR -> 15
      [] severity = WARNING -> 30
      [] OTHER -> None

\* The table with the delays of EMERGENCY and CRITICAL exchanged
escalation_times_exchanged(severity) ==
    CASE severity = EMERGENCY -> EscalateCritical
      [] severity = CRITICAL -> EscalateEmergency
      [] severity = ERROR -> EscalateError
      [] severity = WARNING -> EscalateWarning
      [] OTHER -> None

escalation_times(severity) ==
    CASE severity = EMERGENCY -> EscalateEmergency
      [] severity = CRITICAL -> EscalateCritical
      [] severity = ERROR -> EscalateError
      [] severity = WARNING -> EscalateWarning
      [] OTHER -> None

Range(s) == {s[i] : i \in 1..Len(s)}

----------------------------------------------------------------------------
(* Subscriptions and delivery *)

\* AlertSubscription: an absent (None) or empty filter is the empty set, both
\* are false in the code's truth tests.
DefaultSubscriptions ==
    << [user_id |-> "emergency_operator",
        channels |-> <<"email", "sms", "audio", "dashboard">>,
        severity_filter |-> {CRITICAL, EMERGENCY},
        location_filter |-> {}, source_filter |-> {}],
       [user_id |-> "safety_manager",
        channels |-> <<"email", "dashboard">>,
        severity_filter |-> {WARNING, ERROR, CRITICAL, EMERGENCY},
        location_filter |-> {}, source_filter |-> {}],
       [user_id |-> "system_admin",
        channels |-> <<"email", "dashboard", "log">>,
        severity_filter |-> AlertSeverity,
        location_filter |-> {}, source_filter |-> {}] >>

\* The subscriptions add_subscription is called with
UserSubscriptions ==
    { [user_id |-> "field_team",
       channels |-> <<"sms", "webhook">>,
       severity_filter |-> severities,
       location_filter |-> locations, source_filter |-> sources] :
          severities \in {{WARNING, CRITICAL, EMERGENCY}, {INFO}},
          locations \in {{}, {"reactor_hall"}},
          sources \in {{}, {"sensor"}} }

\* _should_deliver_to_subscription with a location filter that an alert
\* without location does not pass
ShouldDeliverLocationRequired(alert, subscription) ==
    /\ alert.severity \in subscription.severity_filter
    /\ subscription.location_filter # {}
       => alert.location \in subscription.location_filter
    /\ subscription.source_filter # {}
       => alert.source \in subscription.source_filter

\* _should_deliver_to_subscription; alert.location is "None" when absent
ShouldDeliverToSubscription(alert, subscription) ==
    IF alert.severity \notin subscription.severity_filter THEN FALSE
    ELSE IF /\ subscription.location_filter # {}
            /\ alert.location # "None"
            /\ alert.location \notin subscription.location_filter THEN FALSE
    ELSE IF /\ subscription.source_filter # {}
            /\ alert.source \notin subscription.source_filter THEN FALSE
    ELSE TRUE

\* the delivery_tasks list of _deliver_alert: <<subscription index, channel>>,
\* in the order of the two loops
RECURSIVE ChannelTasks(_, _, _)
ChannelTasks(s, channels, c) ==
    IF c > Len(channels) THEN <<>>
    ELSE <<<<s, channels[c]>>>> \o ChannelTasks(s, channels, c + 1)

RECURSIVE DeliveryTasks(_, _, _)
DeliveryTasks(alert, subs, s) ==
    IF s > Len(subs) THEN <<>>
    ELSE (IF ShouldDeliverToSubscription(alert, subs[s])
          THEN ChannelTasks(s, subs[s].channels, 1) ELSE <<>>)
         \o DeliveryTasks(alert, subs, s + 1)

\* A gathered delivery that aborted at the first failing adapter
DispatchedUntilFailure(tasks) ==
    {tasks[i] : i \in {j \in 1..Len(tasks) :
                          \A h \in 1..j : tasks[h][2] \notin failing_channels}}

\* asyncio.gather(*delivery_tasks, return_exceptions=True) over
\* _deliver_to_channel, whose try/except keeps an adapter's exception inside
\* its own task: every task runs
Dispatched(tasks) == Range(tasks)

\* Whether the gather lets a failed delivery raise out of send_alert
DeliveryRaisesOnFailure(tasks) == \E i \in 1..Len(tasks) : tasks[i][2] \in failing_channels

DeliveryRaises(tasks) == FALSE

----------------------------------------------------------------------------
(* send_alert *)

\* alert_id of send_alert: the clock to the second and len(self.active_alerts)
AlertId(active) == <<now, Cardinality(DOMAIN active)>>

\* The Alert send_alert creates; requires_acknowledgment is "None", "True" or
\* "False", auto_escalate_after is None or a number of seconds
NewAlert(active, severity, title, about, source, location, requires_acknowledgment, auto_escalate_after, tags) ==
    [id |-> AlertId(active),
     severity |-> severity,
     title |-> title,
     about |-> about,
     timestamp |-> now,
     source |-> source,
     location |-> location,
     requires_acknowledgment |->
         IF requires_acknowledgment = "None"
         THEN severity \in {CRITICAL, EMERGENCY}
         ELSE requires_acknowledgment = "True",
     auto_escalate_after |->
         IF auto_escalate_after = None
         THEN escalation_times(severity)
         ELSE auto_escalate_after,
     tags |-> tags]

\* send_alert up to its await of _deliver_alert: the alert is stored and its
\* delivery tasks are created.  active and calls are active_alerts and sends
\* as the caller left them; caller is the timer whose _auto_escalate_alert
\* makes the call, 0 for any other caller.
StoreAlert(active, calls, alert, caller) ==
    /\ active_alerts' = (alert.id :> alert) @@ active
    /\ alert_history' = Append(alert_history, alert)
    /\ sends' = Append(calls, [pc |-> "queued",
                               caller |-> caller,
                               tasks |-> DeliveryTasks(alert, subscriptions, 1),
                               dispatched |-> {},
                               failed |-> {}])

\* The call shapes of send_alert the model draws from
SendInputs ==
    { [severity |-> CRITICAL, requires_acknowledgment |-> "None",
       auto_escalate_after |-> None, source |-> "sensor", location |-> "reactor_hall",
       tags |-> <<"radiation">>],
      [severity |-> ERROR, requires_acknowledgment |-> "True",
       auto_escalate_after |-> 0, source |-> "sensor", location |-> "None",
       tags |-> <<>>] }

\* The call shapes for the matching of subscriptions: alerts with and
\* without a location, from two sources
MatchInputs ==
    { [severity |-> sev, requires_acknowledgment |-> "False", auto_escalate_after |-> None,
       source |-> src, location |-> loc, tags |-> <<>>] :
          sev \in {INFO, CRITICAL},
          src \in {"sensor", "operator"},
          loc \in {"None", "reactor_hall", "turbine_hall"} }

\* The call shapes for the system subscriptions: every severity, with and
\* without a location, from two sources
SubscribeInputs ==
    { [severity |-> sev, requires_acknowledgment |-> "None", auto_escalate_after |-> None,
       source |-> src, location |-> loc, tags |-> <<>>] :
          sev \in AlertSeverity,
          src \in {"sensor", "operator"},
          loc \in {"None", "turbine_hall"} }

\* The call shapes for the default policy: every severity, with
\* requires_acknowledgment and auto_escalate_after given or left out
PolicyInputs ==
    { [severity |-> sev, requires_acknowledgment |-> req, auto_escalate_after |-> after,
       source |-> "sensor", location |-> "None", tags |-> <<>>] :
          sev \in AlertSeverity, req \in {"None", "True", "False"}, after \in {None, 0, 45} }

\* last_call after a step that raised nothing, and after an acknowledge_alert
\* or resolve_alert that raised its ValueError
OtherCall == "returned"

NotFoundError == "ValueError"

SendAlert(in) ==
    /\ Len(alert_history) < MaxAlerts
    /\ LET alert == NewAlert(active_alerts, in.severity, "user", NoId, in.source,
                             in.location, in.requires_acknowledgment,
                             in.auto_escalate_after, in.tags)
       IN StoreAlert(active_alerts, sends, alert, 0)
    /\ last_call' = OtherCall
    /\ UNCHANGED <<now, acknowledged_alerts, subscriptions, escalation_tasks, timers,
                   failing_channels>>

\* "if auto_escalate_after and requires_acknowledgment" of send_alert: None
\* and 0 are both false
NeedsEscalation(alert) ==
    /\ alert.auto_escalate_after # None
    /\ alert.auto_escalate_after # 0
    /\ alert.requires_acknowledgment

\* The timers with timer k, when k is a timer, set to state st
TimerSet(tm, k, st) == IF k = 0 THEN tm ELSE [tm EXCEPT ![k].state = st]

\* sends[i] after its delivery tasks have run: each task calls its adapter,
\* which raises for a failing channel
Delivered(i) ==
    LET ran == Dispatched(sends[i].tasks)
    IN [sends[i] EXCEPT
           !.dispatched = ran,
           !.failed = {t \in ran : t[2] \in failing_channels},
           !.pc = IF DeliveryRaises(sends[i].tasks) THEN "raised" ELSE "delivered"]

\* The delivery tasks of a send_alert called by a timer run; the timer's task
\* is still waiting for them and can be cancelled before it resumes
RunDeliveries(i) ==
    /\ i \in 1..Len(sends)
    /\ sends[i].pc = "queued"
    /\ sends[i].caller # 0
    /\ sends' = [sends EXCEPT ![i] = Delivered(i)]
    /\ timers' = IF Delivered(i).pc = "raised"
                 THEN TimerSet(timers, sends[i].caller, "done") ELSE timers
    /\ last_call' = OtherCall
    /\ UNCHANGED <<now, active_alerts, acknowledged_alerts, subscriptions,
                   escalation_tasks, alert_history, failing_channels>>

\* send_alert after its await of _deliver_alert: the escalation task is
\* created and the call returns the alert id; when the caller is a timer's
\* _auto_escalate_alert, that task ends.  Nothing cancels a caller that is not
\* a timer, so for it the deliveries and the rest of send_alert are one step.
ResumeSend(i) ==
    /\ i \in 1..Len(sends)
    /\ \/ sends[i].pc = "delivered"
       \/ sends[i].pc = "queued" /\ sends[i].caller = 0
    /\ LET alert == alert_history[i]
           call == IF sends[i].pc = "queued" THEN Delivered(i) ELSE sends[i]
           ended == TimerSet(timers, call.caller, "done")
       IN /\ IF call.pc = "delivered" /\ NeedsEscalation(alert)
             THEN /\ timers' = Append(ended,
                                   [owner |-> i,
                                    alert_id |-> alert.id,
                                    delay_seconds |-> alert.auto_escalate_after,
                                    deadline |-> now + alert.auto_escalate_after,
                                    state |-> "sleeping"])
                  /\ escalation_tasks' =
                         (alert.id :> (Len(timers) + 1)) @@ escalation_tasks
             ELSE /\ timers' = ended
                  /\ UNCHANGED escalation_tasks
          /\ sends' = [sends EXCEPT ![i] =
                 [call EXCEPT !.pc = IF call.pc = "delivered" THEN "returned" ELSE @]]
    /\ last_call' = OtherCall
    /\ UNCHANGED <<now, active_alerts, acknowledged_alerts, subscriptions,
                   alert_history, failing_channels>>

----------------------------------------------------------------------------
(* acknowledge_alert, resolve_alert *)

\* The test that makes acknowledge_alert and resolve_alert raise ValueError,
\* made against the history instead of the active set
NotFoundInHistory(alert_id) == alert_id \notin {a.id : a \in Range(alert_history)}

\* "if alert_id not in self.active_alerts: raise ValueError"
NotFound(alert_id) == alert_id \notin DOMAIN active_alerts

\* Task.cancel() on timer k: a sleeping task ends at its sleep; a task inside
\* send_alert ends at the await of _deliver_alert, and that send_alert never
\* reaches its escalation set-up; a finished task is left as it is
CancelTimers(k) ==
    IF timers[k].state \in {"sleeping", "sending"}
    THEN [timers EXCEPT ![k].state = "cancelled"]
    ELSE timers

CancelSends(k) ==
    [i \in 1..Len(sends) |->
        IF sends[i].caller = k /\ sends[i].pc \in {"queued", "delivered"}
        THEN [sends[i] EXCEPT !.pc = "cancelled"]
        ELSE sends[i]]

Remove(f, x) == [y \in DOMAIN f \ {x} |-> f[y]]

\* "if alert_id in self.escalation_tasks: cancel(); del"
CancelEscalation(alert_id, calls_after) ==
    IF alert_id \in DOMAIN escalation_tasks
    THEN /\ timers' = CancelTimers(escalation_tasks[alert_id])
         /\ escalation_tasks' = Remove(escalation_tasks, alert_id)
         /\ calls_after = CancelSends(escalation_tasks[alert_id])
    ELSE /\ UNCHANGED <<timers, escalation_tasks>>
         /\ calls_after = sends

\* The ids acknowledge_alert and resolve_alert are called with: every id ever
\* given out, and one that never was
UnknownId == <<0, MaxAlerts + 1>>

CallIds == {a.id : a \in Range(alert_history)} \cup {UnknownId}

AcknowledgeAlert(alert_id) ==
    IF NotFound(alert_id)
    THEN /\ last_call' = NotFoundError
         /\ UNCHANGED <<now, active_alerts, acknowledged_alerts, subscriptions,
                        escalation_tasks, alert_history, timers, sends,
                        failing_channels>>
    ELSE /\ Len(alert_history) < MaxAlerts
         /\ acknowledged_alerts' = acknowledged_alerts \cup {alert_id}
         /\ \E calls \in {IF alert_id \in DOMAIN escalation_tasks
                          THEN CancelSends(escalation_tasks[alert_id]) ELSE sends} :
               /\ CancelEscalation(alert_id, calls)
               /\ StoreAlert(active_alerts, calls,
                             NewAlert(active_alerts, INFO, "Alert Acknowledged", alert_id,
                                      "alert_system", "None", "None", None,
                                      <<"acknowledgment">>), 0)
         /\ last_call' = OtherCall
         /\ UNCHANGED <<now, subscriptions, failing_channels>>

\* A resolution notice sent at CRITICAL severity
ResolutionNoticeCritical(active, alert_id) ==
    NewAlert(active, CRITICAL, "Alert Resolved", alert_id, "alert_system", "None", "None",
             None, <<"resolution">>)

\* The alert of the send_alert call of resolve_alert: severity INFO, source
\* "alert_system", tags ['resolution'], nothing else given
ResolutionNotice(active, alert_id) ==
    NewAlert(active, INFO, "Alert Resolved", alert_id, "alert_system", "None", "None",
             None, <<"resolution">>)

ResolveAlert(alert_id) ==
    IF NotFound(alert_id)
    THEN /\ last_call' = NotFoundError
         /\ UNCHANGED <<now, active_alerts, acknowledged_alerts, subscriptions,
                        escalation_tasks, alert_history, timers, sends,
                        failing_channels>>
    ELSE /\ Len(alert_history) < MaxAlerts
         /\ \E calls \in {IF alert_id \in DOMAIN escalation_tasks
                          THEN CancelSends(escalation_tasks[alert_id]) ELSE sends} :
               /\ CancelEscalation(alert_id, calls)
               /\ LET popped == Remove(active_alerts, alert_id)
                  IN StoreAlert(popped, calls, ResolutionNotice(popped, alert_id), 0)
         /\ last_call' = OtherCall
         /\ UNCHANGED <<now, acknowledged_alerts, subscriptions, failing_channels>>

----------------------------------------------------------------------------
(* _auto_escalate_alert *)

\* The liveness test of _auto_escalate_alert without its acknowledgment half
IsLiveActiveOnly(alert_id) == alert_id \in DOMAIN active_alerts

\* "if alert_id in self.active_alerts and alert_id not in self.acknowledged_alerts"
IsLive(alert_id) ==
    /\ alert_id \in DOMAIN active_alerts
    /\ alert_id \notin acknowledged_alerts

\* An escalation that goes one severity up, whatever the severity
EscalatedSeverityNext(alert) == alert.severity + 1

\* escalated_severity
EscalatedSeverity(alert) ==
    IF alert.severity # EMERGENCY THEN EMERGENCY ELSE EMERGENCY

\* Timer k wakes from asyncio.sleep(delay_seconds) and runs up to the await
\* of _deliver_alert inside its send_alert, or to its end
AutoEscalateFire(k) ==
    /\ k \in 1..Len(timers)
    /\ timers[k].state = "sleeping"
    /\ now >= timers[k].deadline
    /\ LET alert_id == timers[k].alert_id
       IN IF IsLive(alert_id)
          THEN /\ Len(alert_history) < MaxAlerts
               /\ LET alert == active_alerts[alert_id]
                  IN StoreAlert(active_alerts, sends,
                                NewAlert(active_alerts, EscalatedSeverity(alert),
                                         "ESCALATED", alert_id, "alert_escalation",
                                         alert.location, "None", None,
                                         <<"escalated">> \o alert.tags), k)
               /\ timers' = [timers EXCEPT ![k].state = "sending"]
          ELSE /\ timers' = [timers EXCEPT ![k].state = "done"]
               /\ UNCHANGED <<active_alerts, alert_history, sends>>
    /\ last_call' = OtherCall
    /\ UNCHANGED <<now, acknowledged_alerts, subscriptions, escalation_tasks,
                   failing_channels>>

\* The deadlines of the sleeping timers
SleepingDeadlines ==
    {timers[k].deadline : k \in {j \in 1..Len(timers) : timers[j].state = "sleeping"}}

\* The clock advances: by one second up to MaxTime, or to the next deadline of
\* a sleeping timer; it does not pass a deadline before that timer has woken
Tick ==
    /\ \E t \in ({now + 1} \cap (0..MaxTime)) \cup SleepingDeadlines :
          /\ t > now
          /\ \A d \in SleepingDeadlines : t <= d
          /\ now' = t
    /\ last_call' = OtherCall
    /\ UNCHANGED <<active_alerts, acknowledged_alerts, subscriptions, escalation_tasks,
                   alert_history, timers, sends, failing_channels>>

\* An add_subscription that puts the subscription in the first place of the
\* list instead of appending it
AddSubscriptionFirst(subscription) ==
    /\ Len(subscriptions) < MaxSubscriptions
    /\ subscriptions' = [subscriptions EXCEPT ![1] = subscription]
    /\ last_call' = OtherCall
    /\ UNCHANGED <<now, active_alerts, acknowledged_alerts, escalation_tasks,
                   alert_history, timers, sends, failing_channels>>

\* add_subscription
AddSubscription(subscription) ==
    /\ Len(subscriptions) < MaxSubscriptions
    /\ subscriptions' = Append(subscriptions, subscription)
    /\ last_call' = OtherCall
    /\ UNCHANGED <<now, active_alerts, acknowledged_alerts, escalation_tasks,
                   alert_history, timers, sends, failing_channels>>

\* get_active_alerts: list(self.active_alerts.values())
get_active_alerts == {active_alerts[alert_id] : alert_id \in DOMAIN active_alerts}

\* The dict get_alert_statistics returns
get_alert_statistics ==
    [active_alerts |-> Cardinality(DOMAIN active_alerts),
     total_alerts |-> Len(alert_history),
     acknowledged_alerts |-> Cardinality(acknowledged_alerts),
     severity_breakdown |->
         [severity \in AlertSeverity |->
             Cardinality({alert_id \in DOMAIN active_alerts :
                             active_alerts[alert_id].severity = severity})],
     subscriptions |-> Len(subscriptions)]

\* last_call after the two queries
ActiveAlertsCall == "get_active_alerts"

StatisticsCall == "get_alert_statistics"

GetActiveAlerts ==
    /\ last_call' = ActiveAlertsCall
    /\ UNCHANGED <<now, active_alerts, acknowledged_alerts, subscriptions, escalation_tasks,
                   alert_history, timers, sends, failing_channels>>

\* A get_alert_statistics that drops the acknowledgments of the alerts that
\* are not active any more as it counts
GetAlertStatisticsPruning ==
    /\ last_call' = StatisticsCall
    /\ acknowledged_alerts' = acknowledged_alerts \cap DOMAIN active_alerts
    /\ UNCHANGED <<now, active_alerts, subscriptions, escalation_tasks,
                   alert_history, timers, sends, failing_channels>>

GetAlertStatistics ==
    /\ last_call' = StatisticsCall
    /\ UNCHANGED <<now, active_alerts, acknowledged_alerts, subscriptions, escalation_tasks,
                   alert_history, timers, sends, failing_channels>>

----------------------------------------------------------------------------

AMInit ==
    /\ now = 0
    /\ active_alerts = <<>>
    /\ acknowledged_alerts = {}
    /\ subscriptions = DefaultSubscriptions
    /\ escalation_tasks = <<>>
    /\ alert_history = <<>>
    /\ timers = <<>>
    /\ sends = <<>>
    /\ failing_channels = {"sms"}
    /\ last_call = OtherCall

----------------------------------------------------------------------------
(* EmergencyStopSystem, navigation/emergency_stop.py *)

\* EmergencyLevel
LevelLow == 1
LevelMedium == 2
LevelHigh == 3
LevelCritical == 4

\* self.thresholds; radiation and proximity in tenths (2.0 mSv/h is 20, 0.5 m
\* is 5), so that the model's numbers are integers
RadiationCritical == 20
RadiationHigh == 10
TemperatureCritical == 80
HydrogenCritical == 4000
CarbonMonoxideCritical == 200
ProximityEmergency == 5

gas_critical == [hydrogen |-> HydrogenCritical, carbon_monoxide |-> CarbonMonoxideCritical]

\* current_emergency = None, and the None check_emergency_conditions returns
NoEvent == [level |-> 0, trigger |-> "None", requires_evacuation |-> FALSE,
            sensor_data |-> "None", description |-> <<>>]

Event(level, trigger, sensor_data, requires_evacuation) ==
    [level |-> level, trigger |-> trigger, requires_evacuation |-> requires_evacuation,
     sensor_data |-> sensor_data.name, description |-> <<trigger, sensor_data.name>>]

\* The first gas of gas_levels, in the dict's order, that is tracked and at
\* or above its critical level; 0 when there is none
RECURSIVE FirstCriticalGas(_, _)
FirstCriticalGas(gas_levels, i) ==
    IF i > Len(gas_levels) THEN 0
    ELSE IF /\ gas_levels[i][1] \in DOMAIN gas_critical
            /\ gas_levels[i][2] >= gas_critical[gas_levels[i][1]]
         THEN i
         ELSE FirstCriticalGas(gas_levels, i + 1)

\* f'{gas}_critical', the trigger of a gas event
GasTrigger(gas) ==
    CASE gas = "hydrogen" -> "hydrogen_critical"
      [] gas = "carbon_monoxide" -> "carbon_monoxide_critical"

\* check_emergency_conditions with the temperature looked at before the
\* radiation
check_emergency_conditions_temperature_first(sensor_data) ==
    IF sensor_data.temperature >= TemperatureCritical
    THEN Event(LevelHigh, "temperature_critical", sensor_data, FALSE)
    ELSE IF sensor_data.radiation_level >= RadiationCritical
    THEN Event(LevelCritical, "radiation_critical", sensor_data, TRUE)
    ELSE IF sensor_data.radiation_level >= RadiationHigh
    THEN Event(LevelHigh, "radiation_high", sensor_data, FALSE)
    ELSE IF FirstCriticalGas(sensor_data.gas_levels, 1) # 0
    THEN Event(LevelCritical,
               GasTrigger(sensor_data.gas_levels[FirstCriticalGas(sensor_data.gas_levels, 1)][1]),
               sensor_data, TRUE)
    ELSE IF sensor_data.proximity_distance <= ProximityEmergency
    THEN Event(LevelMedium, "proximity_emergency", sensor_data, FALSE)
    ELSE NoEvent

\* check_emergency_conditions.  A reading holds every key, a key the caller
\* left out holding the default that sensor_data.get gives it.
check_emergency_conditions(sensor_data) ==
    IF sensor_data.radiation_level >= RadiationCritical
    THEN Event(LevelCritical, "radiation_critical", sensor_data, TRUE)
    ELSE IF sensor_data.radiation_level >= RadiationHigh
    THEN Event(LevelHigh, "radiation_high", sensor_data, FALSE)
    ELSE IF sensor_data.temperature >= TemperatureCritical
    THEN Event(LevelHigh, "temperature_critical", sensor_data, FALSE)
    ELSE IF FirstCriticalGas(sensor_data.gas_levels, 1) # 0
    THEN Event(LevelCritical,
               GasTrigger(sensor_data.gas_levels[FirstCriticalGas(sensor_data.gas_levels, 1)][1]),
               sensor_data, TRUE)
    ELSE IF sensor_data.proximity_distance <= ProximityEmergency
    THEN Event(LevelMedium, "proximity_emergency", sensor_data, FALSE)
    ELSE NoEvent

\* float('inf'), the default of proximity_distance
Infinity == 1000000

\* The default reading: what sensor_data.get returns for every missing key
DefaultReading == [name |-> "safe", radiation_level |-> 0, temperature |-> 20,
                   gas_levels |-> <<>>, proximity_distance |-> Infinity]

\* The readings the model feeds: {radiation_level: 2.5}, {radiation_level: 1.0},
\* {proximity_distance: 0.3} and {}
Readings ==
    { [DefaultReading EXCEPT !.name = "radiation_2_5", !.radiation_level = 25],
      [DefaultReading EXCEPT !.name = "radiation_1_0", !.radiation_level = 10],
      [DefaultReading EXCEPT !.name = "proximity_0_3", !.proximity_distance = 3],
      DefaultReading }

\* The gas_levels of the readings below, each in the order of its dict
GasSamples ==
    { <<>>,
      << <<"hydrogen", 3999>> >>,
      << <<"hydrogen", 4000>> >>,
      << <<"methane", 9000>>, <<"carbon_monoxide", 200>> >>,
      << <<"carbon_monoxide", 199>>, <<"hydrogen", 5000>> >> }

\* The readings for the classification on its own: every sensor below, at
\* and above its thresholds, in every combination
ClassifyReading(radiation, temperature, gas_levels, proximity) ==
    [name |-> ToString(<<radiation, temperature, gas_levels, proximity>>),
     radiation_level |-> radiation, temperature |-> temperature,
     gas_levels |-> gas_levels, proximity_distance |-> proximity]

ClassifyReadings ==
    { ClassifyReading(radiation, temperature, gas_levels, proximity) :
          radiation \in {0, 9, 10, 19, 20, 25},
          temperature \in {20, 79, 80, 95},
          gas_levels \in GasSamples,
          proximity \in {Infinity, 6, 5, 3} }

\* An explicit low-severity event, which no reading produces
ManualLowEvent == [level |-> LevelLow, trigger |-> "manual", requires_evacuation |-> FALSE,
                   sensor_data |-> "None", description |-> <<"manual">>]

\* The operators and reasons reset_emergency is called with
ResetOperators == {"operator_1", "operator_2"}

ResetReasons == {"area cleared"}

\* The EmergencyEvent reset_emergency hands to _send_alerts: its description
\* is f"Emergency reset by {operator_id}: {reason}"
ResetEvent(operator_id, reason) ==
    [level |-> LevelLow, trigger |-> "manual_reset", requires_evacuation |-> FALSE,
     sensor_data |-> "None", description |-> <<operator_id, reason>>]

\* The events trigger_emergency_stop is called with
TriggerEvents ==
    ({check_emergency_conditions(r) : r \in Readings} \ {NoEvent}) \cup {ManualLowEvent}

\* The steps of the response sequence of a level, in the order of
\* _execute_critical_stop, _execute_high_priority_stop,
\* _execute_medium_priority_stop and _execute_controlled_stop.  A "stop" step
\* loops over stop_callbacks with the given argument, an "alert" step is
\* _send_alerts with the given severity, looping over alert_callbacks.
ResponseSteps(level) ==
    CASE level = LevelCritical ->
            << <<"stop", "immediate">>, <<"step", "evacuation_alarm">>,
               <<"step", "notify_emergency_services">>, <<"step", "containment">>,
               <<"alert", "CRITICAL">> >>
      [] level = LevelHigh ->
            << <<"stop", "immediate">>, <<"alert", "EMERGENCY">>,
               <<"step", "safety_protocols">> >>
      [] level = LevelMedium ->
            << <<"stop", "controlled">>, <<"alert", "WARNING">> >>
      [] OTHER ->
            << <<"stop", "gradual">>, <<"alert", "INFO">> >>

\* A reset_emergency that sends nothing
ResetStepsNone == <<>>

\* The steps of reset_emergency after its state change: _send_alerts(.., "INFO")
ResetSteps == << <<"alert", "INFO">> >>

\* A response sequence without the try/except of its loops: a callback that
\* raises ends the whole sequence
RECURSIVE RunOnAborting(_)
RunOnAborting(run) ==
    IF run.phase > Len(run.steps) THEN run
    ELSE LET step == run.steps[run.phase]
             callbacks == IF step[1] = "stop" THEN stop_callbacks
                          ELSE IF step[1] = "alert" THEN alert_callbacks
                          ELSE <<>>
         IN IF step[1] = "step"
            THEN RunOnAborting([run EXCEPT !.phase = @ + 1, !.idx = 1,
                                           !.trace = Append(@, <<step[2], 0, "ok">>)])
            ELSE IF run.idx > Len(callbacks)
            THEN RunOnAborting([run EXCEPT !.phase = @ + 1, !.idx = 1])
            ELSE IF callbacks[run.idx].raises
            THEN [run EXCEPT !.phase = Len(run.steps) + 1, !.idx = 1,
                             !.trace = Append(@, <<step[2], run.idx, "raised">>)]
            ELSE [run EXCEPT !.idx = @ + 1,
                             !.trace = Append(@, <<step[2], run.idx, "ok">>)]

\* A coroutine runs from where it stands to its next await of a callback, or
\* to its end.  steps[phase] is the step it is in and idx the callback the
\* loop of that step calls next; trace lists what it has executed.  A
\* callback that raises is caught by the loop's try/except, and the loop
\* goes on.
RECURSIVE RunOn(_)
RunOn(run) ==
    IF run.phase > Len(run.steps) THEN run
    ELSE LET step == run.steps[run.phase]
             callbacks == IF step[1] = "stop" THEN stop_callbacks
                          ELSE IF step[1] = "alert" THEN alert_callbacks
                          ELSE <<>>
         IN IF step[1] = "step"
            THEN RunOn([run EXCEPT !.phase = @ + 1, !.idx = 1,
                                   !.trace = Append(@, <<step[2], 0, "ok">>)])
            ELSE IF run.idx > Len(callbacks)
            THEN RunOn([run EXCEPT !.phase = @ + 1, !.idx = 1])
            ELSE [run EXCEPT !.idx = @ + 1,
                             !.trace = Append(@, <<step[2], run.idx,
                                 IF callbacks[run.idx].raises THEN "raised" ELSE "ok">>)]

NewRun(kind, event, steps) ==
    RunOn([kind |-> kind, event |-> event, steps |-> steps, phase |-> 1, idx |-> 1,
           trace |-> <<>>, reset |-> FALSE])

\* A run is over when no step is left and no callback of the last loop is
Finished(run) == RunOn(run) = run

\* The test of trigger_emergency_stop that makes it return at once, with the
\* comparison of the levels left out
AlreadyActiveAny(event) ==
    is_emergency_active /\ current_emergency # NoEvent

\* The same test with < for <=
AlreadyActiveStrict(event) ==
    /\ is_emergency_active
    /\ current_emergency # NoEvent
    /\ event.level < current_emergency.level

\* "if self.is_emergency_active and self.current_emergency:
\*      if emergency_event.level.value <= self.current_emergency.level.value: return"
AlreadyActive(event) ==
    /\ is_emergency_active
    /\ current_emergency # NoEvent
    /\ event.level <= current_emergency.level

\* es_call after an operation that is not a call of trigger_emergency_stop,
\* reset_emergency or check_emergency_conditions
OtherOperation == [op |-> "other", event |-> NoEvent, accepted |-> TRUE]

\* trigger_emergency_stop, up to the first await of a callback
TriggerEmergencyStop(event) ==
    IF AlreadyActive(event)
    THEN /\ es_call' = [op |-> "trigger", event |-> event, accepted |-> FALSE]
         /\ UNCHANGED <<is_emergency_active, current_emergency, emergency_history,
                        stop_callbacks, alert_callbacks, runs>>
    ELSE /\ Len(runs) < MaxRuns
         /\ is_emergency_active' = TRUE
         /\ current_emergency' = event
         /\ emergency_history' = Append(emergency_history, event)
         /\ runs' = Append(runs, NewRun("stop", event, ResponseSteps(event.level)))
         /\ es_call' = [op |-> "trigger", event |-> event, accepted |-> TRUE]
         /\ UNCHANGED <<stop_callbacks, alert_callbacks>>

\* A response sequence that takes the system out of the emergency when it
\* comes to its end
ResumeRunAutoIdle(r) ==
    /\ r \in 1..Len(runs)
    /\ ~Finished(runs[r])
    /\ runs' = [runs EXCEPT ![r] = RunOn(runs[r])]
    /\ es_call' = OtherOperation
    /\ is_emergency_active' = (is_emergency_active /\ ~Finished(RunOn(runs[r])))
    /\ current_emergency' = IF Finished(RunOn(runs[r])) THEN NoEvent ELSE current_emergency
    /\ UNCHANGED <<emergency_history, stop_callbacks, alert_callbacks>>

\* A response sequence that ends, when it resumes, if reset_emergency has
\* run since it was started
ResumeRunUnlessReset(r) ==
    /\ r \in 1..Len(runs)
    /\ ~Finished(runs[r])
    /\ runs' = [runs EXCEPT ![r] =
                   IF runs[r].kind = "stop" /\ runs[r].reset
                   THEN [runs[r] EXCEPT !.phase = Len(runs[r].steps) + 1, !.idx = 1]
                   ELSE RunOn(runs[r])]
    /\ es_call' = OtherOperation
    /\ UNCHANGED <<is_emergency_active, current_emergency, emergency_history,
                   stop_callbacks, alert_callbacks>>

\* A response sequence resumes after the callback it awaited
ResumeRun(r) ==
    /\ r \in 1..Len(runs)
    /\ ~Finished(runs[r])
    /\ runs' = [runs EXCEPT ![r] = RunOn(runs[r])]
    /\ es_call' = OtherOperation
    /\ UNCHANGED <<is_emergency_active, current_emergency, emergency_history,
                   stop_callbacks, alert_callbacks>>

\* A reset_emergency that clears the flag and leaves current_emergency
ResetEmergencyKeepsCurrent(operator_id, reason) ==
    IF ~is_emergency_active
    THEN /\ es_call' = [op |-> "reset", event |-> NoEvent, accepted |-> FALSE]
         /\ UNCHANGED <<is_emergency_active, current_emergency, emergency_history,
                        stop_callbacks, alert_callbacks, runs>>
    ELSE /\ Len(runs) < MaxRuns
         /\ is_emergency_active' = FALSE
         /\ runs' = Append([r \in 1..Len(runs) |-> [runs[r] EXCEPT !.reset = TRUE]],
                           NewRun("reset", ResetEvent(operator_id, reason), ResetSteps))
         /\ es_call' = [op |-> "reset", event |-> ResetEvent(operator_id, reason),
                        accepted |-> TRUE]
         /\ UNCHANGED <<current_emergency, emergency_history, stop_callbacks,
                        alert_callbacks>>

\* reset_emergency, up to the first await of an alert callback
ResetEmergency(operator_id, reason) ==
    IF ~is_emergency_active
    THEN /\ es_call' = [op |-> "reset", event |-> NoEvent, accepted |-> FALSE]
         /\ UNCHANGED <<is_emergency_active, current_emergency, emergency_history,
                        stop_callbacks, alert_callbacks, runs>>
    ELSE /\ Len(runs) < MaxRuns
         /\ is_emergency_active' = FALSE
         /\ current_emergency' = NoEvent
         /\ runs' = Append([r \in 1..Len(runs) |-> [runs[r] EXCEPT !.reset = TRUE]],
                           NewRun("reset", ResetEvent(operator_id, reason), ResetSteps))
         /\ es_call' = [op |-> "reset", event |-> ResetEvent(operator_id, reason),
                        accepted |-> TRUE]
         /\ UNCHANGED <<emergency_history, stop_callbacks, alert_callbacks>>

\* check_emergency_conditions called with a reading
CheckEmergencyConditions(sensor_data) ==
    /\ es_call' = [op |-> "check", event |-> check_emergency_conditions(sensor_data),
                   accepted |-> TRUE]
    /\ UNCHANGED <<is_emergency_active, current_emergency, emergency_history,
                   stop_callbacks, alert_callbacks, runs>>

\* The dict get_emergency_status returns, without the thresholds, which are
\* fixed
get_emergency_status ==
    [is_active |-> is_emergency_active,
     current_emergency |-> current_emergency,
     emergency_count |-> Len(emergency_history),
     last_emergency |-> IF emergency_history # <<>>
                        THEN emergency_history[Len(emergency_history)] ELSE NoEvent]

GetEmergencyStatus ==
    /\ es_call' = [op |-> "status", event |-> get_emergency_status.current_emergency,
                   accepted |-> TRUE]
    /\ UNCHANGED <<is_emergency_active, current_emergency, emergency_history,
                   stop_callbacks, alert_callbacks, runs>>

\* The callbacks register_stop_callback and register_alert_callback are
\* called with, one that returns and one that raises.  They are registered
\* when the system is set up: each at most once, before the first emergency.
StopCallbacks == { [name |-> "halt_motors", raises |-> FALSE],
                   [name |-> "cut_power", raises |-> TRUE] }

AlertCallbacks == { [name |-> "notify_operators", raises |-> FALSE],
                    [name |-> "page_on_call", raises |-> TRUE] }

RegisterStopCallback(callback) ==
    /\ emergency_history = <<>>
    /\ callback \notin Range(stop_callbacks)
    /\ stop_callbacks' = Append(stop_callbacks, callback)
    /\ es_call' = OtherOperation
    /\ UNCHANGED <<is_emergency_active, current_emergency, emergency_history,
                   alert_callbacks, runs>>

RegisterAlertCallback(callback) ==
    /\ emergency_history = <<>>
    /\ callback \notin Range(alert_callbacks)
    /\ alert_callbacks' = Append(alert_callbacks, callback)
    /\ es_call' = OtherOperation
    /\ UNCHANGED <<is_emergency_active, current_emergency, emergency_history,
                   stop_callbacks, runs>>

ESInit ==
    /\ is_emergency_active = FALSE
    /\ current_emergency = NoEvent
    /\ emergency_history = <<>>
    /\ stop_callbacks = <<>>
    /\ alert_callbacks = <<>>
    /\ runs = <<>>
    /\ es_call = OtherOperation

----------------------------------------------------------------------------

Init == AMInit /\ ESInit

AMNext ==
    \/ \E in \in SendInputs : SendAlert(in)
    \/ \E i \in 1..MaxAlerts : RunDeliveries(i)
    \/ \E i \in 1..MaxAlerts : ResumeSend(i)
    \/ \E alert_id \in CallIds : AcknowledgeAlert(alert_id)
    \/ \E alert_id \in CallIds : ResolveAlert(alert_id)
    \/ \E k \in 1..MaxAlerts : AutoEscalateFire(k)
    \/ Tick

\* The operations of the emergency stop system, with the events that are
\* triggered and the operators that reset
ESNextWith(events, operators) ==
    \/ \E event \in events : TriggerEmergencyStop(event)
    \/ \E r \in 1..Len(runs) : ResumeRun(r)
    \/ \E operator_id \in operators, reason \in ResetReasons :
          ResetEmergency(operator_id, reason)
    \/ \E callback \in StopCallbacks : RegisterStopCallback(callback)
    \/ \E callback \in AlertCallbacks : RegisterAlertCallback(callback)

\* Every event, one operator
ESNext == ESNextWith(TriggerEvents, {"operator_1"})

\* Two events, every operator
ResetNext ==
    ESNextWith({e \in TriggerEvents : e.level \in {LevelLow, LevelCritical}}, ResetOperators)

ResetSpec == Init /\ [][ResetNext /\ UNCHANGED amvars]_vars

\* The events of two levels, one operator, and readings checked at any time
MonitorNext ==
    \/ ESNextWith({e \in TriggerEvents : e.level \in {LevelMedium, LevelCritical}},
                  {"operator_1"})
    \/ \E sensor_data \in Readings : CheckEmergencyConditions(sensor_data)

MonitorSpec == Init /\ [][MonitorNext /\ UNCHANGED amvars]_vars

\* The alert manager on its own
Next == AMNext /\ UNCHANGED esvars

Spec == Init /\ [][Next]_vars

\* send_alert called with every combination of severity and overrides, at
\* most MaxPolicyAlerts times, and what the timers make of the alerts
PolicyNext ==
    \/ \E in \in PolicyInputs : Len(alert_history) < MaxPolicyAlerts /\ SendAlert(in)
    \/ \E i \in 1..MaxAlerts : RunDeliveries(i)
    \/ \E i \in 1..MaxAlerts : ResumeSend(i)
    \/ \E k \in 1..MaxAlerts : AutoEscalateFire(k)
    \/ Tick

PolicySpec == Init /\ [][PolicyNext /\ UNCHANGED esvars]_vars

\* Subscriptions are added and alerts are sent to them, at most
\* MaxPolicyAlerts alerts
MatchNext ==
    \/ \E subscription \in UserSubscriptions : AddSubscription(subscription)
    \/ \E in \in MatchInputs : Len(alert_history) < MaxPolicyAlerts /\ SendAlert(in)
    \/ \E i \in 1..MaxAlerts : ResumeSend(i)

MatchSpec == Init /\ [][MatchNext /\ UNCHANGED esvars]_vars

\* Subscriptions are added and alerts of every severity are sent, at most
\* MaxPolicyAlerts alerts
SubscribeNext ==
    \/ \E subscription \in UserSubscriptions : AddSubscription(subscription)
    \/ \E in \in SubscribeInputs : Len(alert_history) < MaxPolicyAlerts /\ SendAlert(in)
    \/ \E i \in 1..MaxAlerts : ResumeSend(i)

SubscribeSpec == Init /\ [][SubscribeNext /\ UNCHANGED esvars]_vars

\* The queries of both classes, called at any time between the operations
\* that change the state: alerts are sent, acknowledged and resolved, the
\* emergency stop is triggered and reset
QueryNext ==
    \/ /\ \/ \E in \in SendInputs : Len(alert_history) < MaxPolicyAlerts /\ SendAlert(in)
          \/ \E i \in 1..MaxAlerts : ResumeSend(i)
          \/ \E alert_id \in CallIds :
                Len(alert_history) <= MaxPolicyAlerts /\ AcknowledgeAlert(alert_id)
          \/ \E alert_id \in CallIds :
                Len(alert_history) <= MaxPolicyAlerts + 1 /\ ResolveAlert(alert_id)
          \/ GetActiveAlerts
          \/ GetAlertStatistics
       /\ UNCHANGED esvars
    \/ /\ \/ \E event \in {e \in TriggerEvents : e.level = LevelCritical} :
                TriggerEmergencyStop(event)
          \/ \E operator_id \in {"operator_1"}, reason \in ResetReasons :
                ResetEmergency(operator_id, reason)
          \/ GetEmergencyStatus
          \/ \E sensor_data \in Readings : CheckEmergencyConditions(sensor_data)
       /\ UNCHANGED amvars

QuerySpec == Init /\ [][QueryNext]_vars

\* check_emergency_conditions called with every reading of ClassifyReadings
ClassifyNext ==
    \E sensor_data \in ClassifyReadings : CheckEmergencyConditions(sensor_data)

ClassifySpec == Init /\ [][ClassifyNext /\ UNCHANGED amvars]_vars

\* The emergency stop system on its own
EmergencyNext == ESNext /\ UNCHANGED amvars

EmergencySpec == Init /\ [][EmergencyNext]_vars

----------------------------------------------------------------------------
(* Properties of the alert manager, checked under Spec *)

\* The escalated alerts of a history whose message names alert_id
Escalations(history, alert_id) ==
    {j \in 1..Len(history) : /\ history[j].source = "alert_escalation"
                             /\ history[j].about = alert_id}

\* The escalated alerts raised by the timer that send_alert invocation i set up
RaisedFor(i) ==
    {j \in 1..Len(alert_history) :
        /\ sends[j].caller # 0
        /\ timers[sends[j].caller].owner = i}

\* The timer of send_alert invocation i has not woken yet
TimerPending(i) ==
    \E k \in 1..Len(timers) : timers[k].owner = i /\ timers[k].state = "sleeping"

\* acknowledge_alert or resolve_alert has succeeded on alert_id at some time:
\* each leaves its notice in the history
Handled(alert_id) ==
    \E j \in 1..Len(alert_history) :
        /\ alert_history[j].source = "alert_system"
        /\ alert_history[j].about = alert_id

\* The ids given out so far
IdsGiven == {a.id : a \in Range(alert_history)}

\* C1: an alert that requires acknowledgment and has a finite
\* auto_escalate_after, and that nobody acknowledges or resolves, has exactly
\* one escalated alert raised for it once its send_alert is over and its
\* deadline is behind it; the escalated alert is tagged "escalated" and its
\* severity is at least the original's (EMERGENCY stays EMERGENCY).
C1_ExactlyOneEscalation ==
    \A i \in 1..Len(alert_history) :
        LET alert == alert_history[i]
        IN (/\ alert.requires_acknowledgment
            /\ alert.auto_escalate_after # None
            /\ sends[i].pc \in {"returned", "cancelled"}
            /\ ~Handled(alert.id)
            /\ ~TimerPending(i))
           => /\ Cardinality(RaisedFor(i)) = 1
              /\ \A j \in RaisedFor(i) :
                    /\ alert_history[j].severity >= alert.severity
                    /\ "escalated" \in Range(alert_history[j].tags)

\* C2: once acknowledge_alert has recorded an id, no escalated alert is raised
\* for that id any more, whatever the order in which the acknowledgment, the
\* deliveries and the timer's wake-up run.
C2_AckPreventsEscalation ==
    [][\A alert_id \in acknowledged_alerts' :
          Escalations(alert_history', alert_id) = Escalations(alert_history, alert_id)]_vars

\* A timer woke for an acknowledged alert and raised nothing
C2_Witness ==
    \E k \in 1..Len(timers) :
        /\ timers[k].state = "done"
        /\ timers[k].alert_id \in acknowledged_alerts
        /\ RaisedFor(timers[k].owner) = {}
        /\ Escalations(alert_history, timers[k].alert_id) = {}

\* C3: an alert id has at most one escalated alert, and none is raised for an
\* id after resolve_alert has removed that alert.
C3_NoEscalationAfterResolve ==
    [][\A alert_id \in IdsGiven :
          /\ Cardinality(Escalations(alert_history', alert_id)) <= 1
          /\ (\E j \in 1..Len(alert_history) :
                 /\ alert_history[j].title = "Alert Resolved"
                 /\ alert_history[j].about = alert_id)
             => Escalations(alert_history', alert_id) = Escalations(alert_history, alert_id)]_vars

\* C4: acknowledge_alert and resolve_alert on an id that is not active raise
\* the not-found error and leave active_alerts, acknowledged_alerts,
\* escalation_tasks and alert_history as they were; they succeed, and leave
\* their notice, only on an id that is active.
C4_NotFoundMutatesNothing ==
    [][/\ last_call' = NotFoundError
          => UNCHANGED <<active_alerts, acknowledged_alerts, escalation_tasks,
                         alert_history, timers, sends>>
       /\ (/\ Len(alert_history') > Len(alert_history)
           /\ alert_history'[Len(alert_history')].source = "alert_system")
          => /\ alert_history'[Len(alert_history')].about \in DOMAIN active_alerts
             /\ last_call' = OtherCall]_vars

\* A call on an id that was given out and is not active any more has raised
C4_Witness ==
    /\ last_call = NotFoundError
    /\ IdsGiven \ DOMAIN active_alerts # {}

\* C5: when the adapters of some matching channels fail and others succeed,
\* send_alert does not raise, and every channel of every matching
\* subscription had its delivery attempted, the ones after a failure too.
C5_PartialFailure ==
    \A i \in 1..Len(sends) :
        /\ sends[i].pc # "raised"
        /\ sends[i].pc \in {"delivered", "returned"}
           => \A s \in 1..Len(DefaultSubscriptions) :
                 ShouldDeliverToSubscription(alert_history[i], DefaultSubscriptions[s])
                 => \A c \in Range(DefaultSubscriptions[s].channels) :
                       <<s, c>> \in sends[i].dispatched

\* A send_alert has returned with a failed delivery and a later one attempted
C5_Witness ==
    \E i \in 1..Len(sends) :
        /\ sends[i].pc = "returned"
        /\ \E f \in 1..Len(sends[i].tasks), g \in 1..Len(sends[i].tasks) :
              /\ f < g
              /\ sends[i].tasks[f] \in sends[i].failed
              /\ sends[i].tasks[g] \in sends[i].dispatched \ sends[i].failed

\* The alerts send_alert was called for with severity CRITICAL and neither
\* requires_acknowledgment nor auto_escalate_after given
CriticalDefaults ==
    {i \in 1..Len(alert_history) :
        /\ alert_history[i].title = "user"
        /\ alert_history[i].severity = CRITICAL}

C9_UniqueIds ==
    \A i \in 1..Len(alert_history), j \in 1..Len(alert_history) :
        i # j => alert_history[i].id # alert_history[j].id

\* C10 as written: an id recorded in acknowledged_alerts is not resolved,
\* that is, its alert is still in active_alerts.
C10_AcknowledgedIsActive ==
    \A alert_id \in acknowledged_alerts : alert_id \in DOMAIN active_alerts

\* C10 amended: an id enters acknowledged_alerts only while its alert is
\* active, and the entry is never taken out again, so that an acknowledged
\* alert that is later resolved is in acknowledged_alerts and out of
\* active_alerts at the same time.
C10_AcknowledgedWhileActive ==
    [][/\ acknowledged_alerts \subseteq acknowledged_alerts'
       /\ \A alert_id \in acknowledged_alerts' \ acknowledged_alerts :
             /\ alert_id \in DOMAIN active_alerts
             /\ alert_id \in DOMAIN active_alerts']_vars

\* An acknowledged alert has been resolved
C10_Witness ==
    \E alert_id \in acknowledged_alerts :
        /\ alert_id \notin DOMAIN active_alerts
        /\ \E j \in 1..Len(alert_history) :
              /\ alert_history[j].title = "Alert Resolved"
              /\ alert_history[j].about = alert_id

----------------------------------------------------------------------------
(* Properties of the emergency stop system, checked under EmergencySpec *)

\* What a run has executed, without the callbacks' indices and outcomes
Labels(run) == [i \in 1..Len(run.trace) |-> run.trace[i][1]]

Repeat(x, n) == [i \in 1..n |-> x]

\* The full CRITICAL sequence with the callbacks registered
CriticalSequence ==
    Repeat("immediate", Len(stop_callbacks))
    \o <<"evacuation_alarm", "notify_emergency_services", "containment">>
    \o Repeat("CRITICAL", Len(alert_callbacks))

\* Every CRITICAL response that has come to its end has run the full sequence
CriticalRunsComplete ==
    \A r \in 1..Len(runs) :
        (runs[r].kind = "stop" /\ runs[r].event.level = LevelCritical)
        => /\ runs[r].steps = ResponseSteps(LevelCritical)
           /\ Finished(runs[r]) => Labels(runs[r]) = CriticalSequence

\* C6: a reading of radiation 2.5 gives a CRITICAL event that requires
\* evacuation.  Triggering it while the system is active at CRITICAL changes
\* nothing: no history entry, no second response.  Triggering it while the
\* system is idle, after a reset too, makes the system active at CRITICAL,
\* appends the event to the history and starts a new response, which runs
\* the full CRITICAL sequence.
C6_RetriggerAndReset ==
    [][(es_call'.op = "trigger" /\ es_call'.event.sensor_data = "radiation_2_5")
       => /\ es_call'.event.level = LevelCritical
          /\ es_call'.event.requires_evacuation
          /\ es_call'.event.trigger = "radiation_critical"
          /\ (is_emergency_active /\ current_emergency.level = LevelCritical)
             => /\ ~es_call'.accepted
                /\ UNCHANGED <<is_emergency_active, current_emergency,
                               emergency_history, runs>>
          /\ ~is_emergency_active
             => /\ es_call'.accepted
                /\ is_emergency_active'
                /\ current_emergency' = es_call'.event
                /\ emergency_history' = Append(emergency_history, es_call'.event)
                /\ Len(runs') = Len(runs) + 1
                /\ runs'[Len(runs')].event = es_call'.event
                /\ \A r \in 1..Len(runs) : runs'[r] = runs[r]
          /\ CriticalRunsComplete']_vars

\* Two CRITICAL radiation emergencies with a reset between them, both
\* responses run to their end, and a third trigger turned away
C6_Witness ==
    /\ es_call.op = "trigger"
    /\ es_call.event.sensor_data = "radiation_2_5"
    /\ ~es_call.accepted
    /\ Len(emergency_history) = 2
    /\ \A h \in 1..2 : emergency_history[h].sensor_data = "radiation_2_5"
    /\ Len(runs) = 3
    /\ runs[2].kind = "reset"
    /\ \A r \in 1..3 : Finished(runs[r])
    /\ stop_callbacks # <<>>
    /\ alert_callbacks # <<>>

\* C8: trigger_emergency_stop changes nothing when the system is active and
\* the incoming level is not above the current one; otherwise the system is
\* active at exactly the incoming level afterwards.  While the system stays
\* active, the current level never goes down.
C8_NeverDowngrades ==
    [][/\ es_call'.op = "trigger"
          => IF is_emergency_active /\ es_call'.event.level <= current_emergency.level
             THEN /\ ~es_call'.accepted
                  /\ UNCHANGED <<is_emergency_active, current_emergency,
                                 emergency_history, runs>>
             ELSE /\ es_call'.accepted
                  /\ is_emergency_active'
                  /\ current_emergency'.level = es_call'.event.level
                  /\ emergency_history' = Append(emergency_history, es_call'.event)
       /\ (is_emergency_active /\ is_emergency_active')
          => current_emergency'.level >= current_emergency.level]_vars

\* An emergency was raised to a higher level without a reset, and a trigger
\* of a lower level was then turned away
C8_Witness ==
    /\ es_call.op = "trigger"
    /\ ~es_call.accepted
    /\ es_call.event.level < current_emergency.level
    /\ Len(emergency_history) = 2
    /\ emergency_history[1].level < emergency_history[2].level
    /\ \A r \in 1..Len(runs) : runs[r].kind = "stop"

----------------------------------------------------------------------------
(* Further properties of the alert manager, checked under Spec *)

\* The ids resolve_alert has succeeded on, in a history
ResolvedIds(history) ==
    {history[j].about : j \in {h \in 1..Len(history) : history[h].title = "Alert Resolved"}}

\* C11: after resolve_alert has succeeded on an id, the id is never a key of
\* active_alerts again, and alert_history only grows: it keeps every alert it
\* held, the resolved one too.
C11_ResolutionTerminal ==
    [][/\ \A alert_id \in ResolvedIds(alert_history') :
             alert_id \notin DOMAIN active_alerts'
       /\ Len(alert_history') >= Len(alert_history)
       /\ \A j \in 1..Len(alert_history) : alert_history'[j] = alert_history[j]]_vars

\* C12: every alert _auto_escalate_alert creates has a severity that is at
\* least the severity of the alert it escalates (the one stored under the
\* timer's id, and the one the timer was set up for) and at most EMERGENCY.
C12_EscalationSeverity ==
    [][(/\ Len(alert_history') > Len(alert_history)
        /\ alert_history'[Len(alert_history')].source = "alert_escalation")
       => LET escalated == alert_history'[Len(alert_history')]
              timer == timers[sends'[Len(sends')].caller]
          IN /\ escalated.about = timer.alert_id
             /\ escalated.severity >= active_alerts[timer.alert_id].severity
             /\ escalated.severity >= alert_history[timer.owner].severity
             /\ escalated.severity <= EMERGENCY
             /\ escalated.severity \in AlertSeverity]_vars

\* An alert that was already EMERGENCY has been escalated
C12_Witness ==
    \E j \in 1..Len(alert_history) :
        /\ sends[j].caller # 0
        /\ alert_history[timers[sends[j].caller].owner].severity = EMERGENCY
        /\ alert_history[j].severity = EMERGENCY

----------------------------------------------------------------------------
(* The default policy of send_alert, checked under PolicySpec *)

\* C13: in the alert send_alert creates, requires_acknowledgment is the
\* caller's value, or severity >= CRITICAL when the caller gave none;
\* auto_escalate_after is the caller's value, or 60 for EMERGENCY, 300 for
\* CRITICAL, 900 for ERROR, 1800 for WARNING and none for INFO when the
\* caller gave none.
C13_DefaultPolicy ==
    [][\A in \in PolicyInputs :
          SendAlert(in)
          => LET alert == alert_history'[Len(alert_history')]
             IN /\ alert.severity = in.severity
                /\ alert.requires_acknowledgment =
                      (IF in.requires_acknowledgment = "None"
                       THEN in.severity >= CRITICAL
                       ELSE in.requires_acknowledgment = "True")
                /\ alert.auto_escalate_after =
                      (IF in.auto_escalate_after # None THEN in.auto_escalate_after
                       ELSE CASE in.severity = EMERGENCY -> 60
                              [] in.severity = CRITICAL -> 300
                              [] in.severity = ERROR -> 900
                              [] in.severity = WARNING -> 1800
                              [] OTHER -> None)]_vars

\* Alerts with the caller's values kept against the defaults, and alerts with
\* the defaults
C13_Witness ==
    /\ Len(alert_history) >= 1
    /\ LET alert == alert_history[1]
       IN \/ alert.severity = INFO /\ alert.requires_acknowledgment
             /\ alert.auto_escalate_after = 45
          \/ alert.severity = EMERGENCY /\ ~alert.requires_acknowledgment
             /\ alert.auto_escalate_after = 0
    /\ sends[1].pc = "returned"

\* C14: a send_alert that has returned has started an escalation timer for
\* its alert exactly when the alert requires acknowledgment and its
\* auto_escalate_after is not none; an alert that does not require
\* acknowledgment has no escalated alert.
C14_TimerIffRequired ==
    \A i \in 1..Len(alert_history) :
        LET alert == alert_history[i]
        IN /\ sends[i].pc = "returned"
              => ((\E k \in 1..Len(timers) : timers[k].owner = i)
                  <=> (alert.requires_acknowledgment /\ alert.auto_escalate_after # None))
           /\ ~alert.requires_acknowledgment => RaisedFor(i) = {}

----------------------------------------------------------------------------
(* Subscription matching, checked under MatchSpec *)

\* The subscriptions the send_alert of this step created delivery tasks for
Matched(calls) == {t[1] : t \in Range(calls[Len(calls)].tasks)}

\* C15 as written: a subscription gets the alert exactly when the severity
\* is in its severity filter, it has no location filter or the alert's
\* location is in it, and it has no source filter or the alert's source is
\* in it; an alert without location does not pass a location filter.
C15_MatchingRule ==
    [][Len(sends') > Len(sends)
       => LET alert == alert_history'[Len(alert_history')]
          IN \A s \in 1..Len(subscriptions) :
                s \in Matched(sends')
                <=> /\ alert.severity \in subscriptions[s].severity_filter
                    /\ \/ subscriptions[s].location_filter = {}
                       \/ alert.location \in subscriptions[s].location_filter
                    /\ \/ subscriptions[s].source_filter = {}
                       \/ alert.source \in subscriptions[s].source_filter]_vars

\* C15 amended: the location filter is applied only to alerts that have a
\* location; an alert without location passes every location filter.
C15_MatchingRuleLocationOptional ==
    [][Len(sends') > Len(sends)
       => LET alert == alert_history'[Len(alert_history')]
          IN \A s \in 1..Len(subscriptions) :
                s \in Matched(sends')
                <=> /\ alert.severity \in subscriptions[s].severity_filter
                    /\ \/ subscriptions[s].location_filter = {}
                       \/ alert.location = "None"
                       \/ alert.location \in subscriptions[s].location_filter
                    /\ \/ subscriptions[s].source_filter = {}
                       \/ alert.source \in subscriptions[s].source_filter]_vars

\* An alert without location was delivered to a subscription with a location
\* filter, and an alert from another place was not
C15_Witness ==
    /\ Len(subscriptions) > Len(DefaultSubscriptions)
    /\ subscriptions[Len(subscriptions)].location_filter # {}
    /\ Len(sends) >= 1
    /\ LET s == Len(subscriptions)
       IN \/ /\ alert_history[1].location = "None"
             /\ s \in {t[1] : t \in Range(sends[1].tasks)}
          \/ /\ alert_history[1].location = "turbine_hall"
             /\ alert_history[1].severity \in subscriptions[s].severity_filter
             /\ s \notin {t[1] : t \in Range(sends[1].tasks)}
             /\ sends[1].pc = "returned"

----------------------------------------------------------------------------
(* check_emergency_conditions, checked under ClassifySpec *)

\* A gas of the reading that is tracked and at or above its critical ppm
GasOver(gas_levels) ==
    \E i \in 1..Len(gas_levels) :
        \/ gas_levels[i][1] = "hydrogen" /\ gas_levels[i][2] >= 4000
        \/ gas_levels[i][1] = "carbon_monoxide" /\ gas_levels[i][2] >= 200

\* C16: check_emergency_conditions returns one event or none, the first
\* match in the order radiation, temperature, gas, proximity: radiation >= 2.0
\* CRITICAL with evacuation, else radiation >= 1.0 HIGH, else temperature >=
\* 80 HIGH, else a tracked gas at or above its critical ppm CRITICAL with
\* evacuation, else proximity <= 0.5 MEDIUM, else none.  (Radiation and
\* proximity are in tenths.)
C16_FirstMatchWins ==
    [][\A sensor_data \in ClassifyReadings :
          CheckEmergencyConditions(sensor_data)
          => LET event == es_call'.event
             IN IF sensor_data.radiation_level >= 20
                THEN /\ event.level = LevelCritical /\ event.requires_evacuation
                     /\ event.trigger = "radiation_critical"
                ELSE IF sensor_data.radiation_level >= 10
                THEN /\ event.level = LevelHigh /\ ~event.requires_evacuation
                     /\ event.trigger = "radiation_high"
                ELSE IF sensor_data.temperature >= 80
                THEN /\ event.level = LevelHigh /\ ~event.requires_evacuation
                     /\ event.trigger = "temperature_critical"
                ELSE IF GasOver(sensor_data.gas_levels)
                THEN /\ event.level = LevelCritical /\ event.requires_evacuation
                     /\ event.trigger \in {"hydrogen_critical", "carbon_monoxide_critical"}
                ELSE IF sensor_data.proximity_distance <= 5
                THEN /\ event.level = LevelMedium /\ ~event.requires_evacuation
                     /\ event.trigger = "proximity_emergency"
                ELSE event = NoEvent]_vars

\* A reading over the high radiation, the temperature, a gas and the
\* proximity thresholds at once was classified by its radiation
C16_Witness ==
    /\ es_call.op = "check"
    /\ es_call.event.trigger = "radiation_high"
    /\ es_call.event.sensor_data =
          ClassifyReading(19, 95, << <<"hydrogen", 4000>> >>, 3).name

----------------------------------------------------------------------------
(* The response sequences, checked under EmergencySpec *)

\* The severities of the alerts a run has sent to the alert callbacks
AlertsSent(run) ==
    {run.trace[i][1] : i \in {j \in 1..Len(run.trace) :
        run.trace[j][1] \in {"EMERGENCY", "CRITICAL", "WARNING", "INFO"}}}

\* C17: the alert an accepted trigger_emergency_stop raises has the severity
\* fixed by the level of the event: EMERGENCY for CRITICAL, CRITICAL for
\* HIGH, WARNING for MEDIUM, INFO for LOW.
C17_AlertSeverityByLevel ==
    \A r \in 1..Len(runs) :
        runs[r].kind = "stop"
        => AlertsSent(runs[r]) \subseteq
              {CASE runs[r].event.level = LevelCritical -> "EMERGENCY"
                 [] runs[r].event.level = LevelHigh -> "CRITICAL"
                 [] runs[r].event.level = LevelMedium -> "WARNING"
                 [] OTHER -> "INFO"}

\* What a run has executed, as <<"stop", i>> for stop callback i, <<"alert", i>>
\* for alert callback i and <<name, 0>> for a step without callbacks
Executed(run) ==
    [i \in 1..Len(run.trace) |->
        IF run.trace[i][1] \in {"immediate", "controlled", "gradual"}
        THEN <<"stop", run.trace[i][2]>>
        ELSE IF run.trace[i][1] \in {"EMERGENCY", "CRITICAL", "WARNING", "INFO"}
        THEN <<"alert", run.trace[i][2]>>
        ELSE <<run.trace[i][1], 0>>]

EveryStopCallback == [i \in 1..Len(stop_callbacks) |-> <<"stop", i>>]

EveryAlertCallback == [i \in 1..Len(alert_callbacks) |-> <<"alert", i>>]

\* The whole response sequence of a level, every registered callback in it
WholeSequence(level) ==
    CASE level = LevelCritical ->
            EveryStopCallback
            \o << <<"evacuation_alarm", 0>>, <<"notify_emergency_services", 0>>,
                  <<"containment", 0>> >>
            \o EveryAlertCallback
      [] level = LevelHigh ->
            EveryStopCallback \o EveryAlertCallback \o << <<"safety_protocols", 0>> >>
      [] OTHER -> EveryStopCallback \o EveryAlertCallback

\* C18: a stop or alert callback that raises is caught: the response
\* sequence of an accepted trigger_emergency_stop goes on with every later
\* callback and every later step, in order, and comes to its end only when
\* the whole sequence of its level has been executed.
C18_BestEffortChain ==
    \A r \in 1..Len(runs) :
        runs[r].kind = "stop"
        => LET done == Executed(runs[r])
               whole == WholeSequence(runs[r].event.level)
           IN /\ Len(done) <= Len(whole)
              /\ \A i \in 1..Len(done) : done[i] = whole[i]
              /\ Finished(runs[r]) => done = whole
              /\ \A i \in 1..Len(done) :
                    runs[r].trace[i][3] = "raised"
                    <=> \/ done[i][1] = "stop" /\ stop_callbacks[done[i][2]].raises
                        \/ done[i][1] = "alert" /\ alert_callbacks[done[i][2]].raises

\* A CRITICAL response has come to its end with a stop callback and an alert
\* callback that raised, each followed by a callback that was still called
C18_Witness ==
    \E r \in 1..Len(runs) :
        /\ runs[r].kind = "stop"
        /\ runs[r].event.level = LevelCritical
        /\ Finished(runs[r])
        /\ \E i \in 1..Len(runs[r].trace), j \in 1..Len(runs[r].trace) :
              /\ i < j
              /\ runs[r].trace[i][1] = "immediate" /\ runs[r].trace[i][3] = "raised"
              /\ runs[r].trace[j][1] = "immediate" /\ runs[r].trace[j][3] = "ok"
        /\ \E i \in 1..Len(runs[r].trace), j \in 1..Len(runs[r].trace) :
              /\ i < j
              /\ runs[r].trace[i][1] = "CRITICAL" /\ runs[r].trace[i][3] = "raised"
              /\ runs[r].trace[j][1] = "CRITICAL" /\ runs[r].trace[j][3] = "ok"

----------------------------------------------------------------------------
(* reset_emergency, checked under ResetSpec and MonitorSpec *)

\* Every reset_emergency that has come to its end has given its INFO alert
\* to every alert callback, once
ResetAlertsComplete ==
    \A r \in 1..Len(runs) :
        (runs[r].kind = "reset" /\ Finished(runs[r]))
        => Labels(runs[r]) = Repeat("INFO", Len(alert_callbacks))

\* C19: reset_emergency while the system is not active changes nothing and
\* sends no alert.  While it is active, it makes the system idle, clears the
\* current event and sends one alert, of severity INFO, whose description
\* holds the operator id and the reason; every alert callback gets it once.
C19_Reset ==
    [][/\ \A operator_id \in ResetOperators, reason \in ResetReasons :
             ResetEmergency(operator_id, reason)
             => IF ~is_emergency_active
                THEN /\ ~es_call'.accepted
                     /\ UNCHANGED <<is_emergency_active, current_emergency,
                                    emergency_history, stop_callbacks, alert_callbacks,
                                    runs>>
                ELSE /\ es_call'.accepted
                     /\ ~is_emergency_active'
                     /\ current_emergency' = NoEvent
                     /\ emergency_history' = emergency_history
                     /\ Len(runs') = Len(runs) + 1
                     /\ LET sent == runs'[Len(runs')]
                        IN /\ sent.kind = "reset"
                           /\ sent.steps = << <<"alert", "INFO">> >>
                           /\ sent.event.description = <<operator_id, reason>>
                           /\ sent.event.level = LevelLow
       /\ ResetAlertsComplete']_vars

\* A reset by the second operator has sent its INFO alert to both alert
\* callbacks, and a reset after it was turned away
C19_Witness ==
    /\ es_call.op = "reset"
    /\ ~es_call.accepted
    /\ Len(alert_callbacks) = 2
    /\ \E r \in 1..Len(runs) :
          /\ runs[r].kind = "reset"
          /\ runs[r].event.description[1] = "operator_2"
          /\ Finished(runs[r])
          /\ Len(runs[r].trace) = 2

\* C20: once the system is active it stays active until a reset_emergency
\* call succeeds, whatever is triggered, whatever readings are checked, and
\* whichever callbacks fail or responses come to their end.
C20_OnlyResetLeavesActive ==
    [][(is_emergency_active /\ ~is_emergency_active')
       => /\ es_call'.op = "reset"
          /\ es_call'.accepted]_vars

\* The system is still active after its response has come to its end with
\* failed callbacks and a safe reading has been checked
C20_Witness ==
    /\ is_emergency_active
    /\ es_call.op = "check"
    /\ es_call.event = NoEvent
    /\ runs # <<>>
    /\ \A r \in 1..Len(runs) : Finished(runs[r]) /\ runs[r].kind = "stop"
    /\ \E r \in 1..Len(runs) :
          \E i \in 1..Len(runs[r].trace) : runs[r].trace[i][3] = "raised"

----------------------------------------------------------------------------
(* The escalated alert and the acknowledgment of its original, under Spec *)

\* The alert the step has appended to the history is the notice that
\* acknowledge_alert sends for alert_id
AcknowledgedNow(alert_id) ==
    /\ Len(alert_history') > Len(alert_history)
    /\ alert_history'[Len(alert_history')].title = "Alert Acknowledged"
    /\ alert_history'[Len(alert_history')].about = alert_id

\* C21: when the timer of an alert has fired and raised an escalated alert,
\* an acknowledge_alert of the original marks the original acknowledged and
\* nothing else, and leaves the escalated alert as it is: stored as active,
\* its send_alert going on to its deliveries and to its own timer, also when
\* the timer's task is still inside that send_alert.
C21_AckLeavesEscalatedAlone ==
    [][\A alert_id \in IdsGiven :
          AcknowledgedNow(alert_id)
          => /\ acknowledged_alerts' = acknowledged_alerts \cup {alert_id}
             /\ \A j \in Escalations(alert_history, alert_id) :
                   /\ sends'[j] = sends[j]
                   /\ alert_history[j].id \in DOMAIN active_alerts
                      => /\ alert_history[j].id \in DOMAIN active_alerts'
                         /\ active_alerts'[alert_history[j].id]
                                = active_alerts[alert_history[j].id]]_vars

----------------------------------------------------------------------------
(* The resolution notice, under Spec *)

\* The send_alert invocations made by resolve_alert
ResolutionNotices ==
    {j \in 1..Len(alert_history) : alert_history[j].title = "Alert Resolved"}

\* No timer was set up by send_alert invocation j
NoTimerOf(j) == \A k \in 1..Len(timers) : timers[k].owner # j

\* What holds of every resolution notice at every time: it is an INFO alert
\* that requires no acknowledgment and has no delay, no timer was set up for
\* it, and its send_alert has returned or can return in one step
ResolutionNoticesInert ==
    \A j \in ResolutionNotices :
        /\ alert_history[j].severity = INFO
        /\ ~alert_history[j].requires_acknowledgment
        /\ alert_history[j].auto_escalate_after = None
        /\ ~NeedsEscalation(alert_history[j])
        /\ NoTimerOf(j)
        /\ sends[j].caller = 0
        /\ sends[j].pc \in {"queued", "returned"}
        /\ sends[j].pc = "queued" => ENABLED ResumeSend(j)

----------------------------------------------------------------------------
(* The check-and-set of trigger_emergency_stop, under EmergencySpec *)

\* The response sequences started since the system was last idle
SinceIdle == {r \in 1..Len(runs) : runs[r].kind = "stop" /\ ~runs[r].reset}

\* Since the system was last idle, every accepted event was of a higher level
\* than the ones accepted before it: no level was accepted twice
AcceptedOncePerLevel ==
    \A r \in SinceIdle, q \in SinceIdle :
        r < q => runs[r].event.level < runs[q].event.level

\* C23: trigger_emergency_stop tests and sets the state in one step.  A call
\* that finds the system idle is accepted: its event becomes the current
\* emergency, is appended to the history and gets its response sequence.  A
\* call that finds an emergency of the same or a higher level, whose response
\* sequence may still be running, changes nothing.  So of two calls with
\* events of one level that start from idle, the first to run is accepted
\* and the other is not, however their response sequences interleave.
C23_AtomicCheckAndSet ==
    [][/\ es_call'.op = "trigger"
          => IF is_emergency_active /\ current_emergency.level >= es_call'.event.level
             THEN /\ ~es_call'.accepted
                  /\ UNCHANGED <<is_emergency_active, current_emergency, emergency_history,
                                 runs, stop_callbacks, alert_callbacks>>
             ELSE /\ es_call'.accepted
                  /\ is_emergency_active'
                  /\ current_emergency' = es_call'.event
                  /\ emergency_history' = Append(emergency_history, es_call'.event)
                  /\ Len(runs') = Len(runs) + 1
                  /\ runs'[Len(runs')].event = es_call'.event
                  /\ runs'[Len(runs')].kind = "stop"
       /\ AcceptedOncePerLevel']_vars

\* A second event of the level of the current emergency has been turned down
\* while the response sequence of the first, the only one accepted, was
\* still waiting for a callback
C23_Witness ==
    /\ es_call.op = "trigger"
    /\ ~es_call.accepted
    /\ Len(emergency_history) = 1
    /\ es_call.event.level = current_emergency.level
    /\ Cardinality(SinceIdle) = 1
    /\ \A r \in SinceIdle : ~Finished(runs[r]) /\ runs[r].event = current_emergency

----------------------------------------------------------------------------
(* The system subscriptions, under SubscribeSpec *)

\* The three subscriptions of _setup_default_subscriptions are the first
\* three of the list, as they were seeded
SystemSubscriptionsPresent ==
    /\ Len(subscriptions) >= 3
    /\ SubSeq(subscriptions, 1, 3) = DefaultSubscriptions
    /\ subscriptions[1].user_id = "emergency_operator"
    /\ subscriptions[1].severity_filter = {CRITICAL, EMERGENCY}
    /\ subscriptions[2].user_id = "safety_manager"
    /\ subscriptions[2].severity_filter = {WARNING, ERROR, CRITICAL, EMERGENCY}
    /\ subscriptions[3].user_id = "system_admin"
    /\ subscriptions[3].severity_filter = AlertSeverity
    /\ \A s \in 1..3 : /\ subscriptions[s].location_filter = {}
                       /\ subscriptions[s].source_filter = {}

\* Every CRITICAL or EMERGENCY alert sent so far matched a subscription, and
\* a delivery task was created for it
SevereAlertsMatched ==
    \A i \in 1..Len(alert_history) :
        alert_history[i].severity \in {CRITICAL, EMERGENCY}
        => /\ \E s \in 1..Len(subscriptions) :
                 ShouldDeliverToSubscription(alert_history[i], subscriptions[s])
           /\ \E t \in Range(sends[i].tasks) : t[1] \in 1..3

\* C24: the three system subscriptions seeded at construction are in the list
\* unchanged at every time; add_subscription appends and changes no
\* subscription that is there; so every CRITICAL or EMERGENCY alert matches
\* at least one subscription.
C24_SystemSubscriptionsStay ==
    /\ [](SystemSubscriptionsPresent /\ SevereAlertsMatched)
    /\ [][/\ Len(subscriptions') >= Len(subscriptions)
          /\ SubSeq(subscriptions', 1, Len(subscriptions)) = subscriptions]_vars

\* An EMERGENCY alert that the user's subscription filters out by location
\* and source has gone to the system subscriptions
C24_Witness ==
    \E i \in 1..Len(alert_history) :
        /\ alert_history[i].severity = EMERGENCY
        /\ sends[i].pc = "returned"
        /\ Len(subscriptions) > 3
        /\ ~ShouldDeliverToSubscription(alert_history[i], subscriptions[4])
        /\ sends[i].tasks # <<>>
        /\ \A t \in Range(sends[i].tasks) : t[1] \in 1..3

----------------------------------------------------------------------------
(* The queries, under QuerySpec *)

\* C25: get_active_alerts, get_alert_statistics, get_emergency_status and
\* check_emergency_conditions change nothing: a step that is one of them (a
\* call on one object, the other object not running) leaves active_alerts, acknowledged_alerts, escalation_tasks, alert_history
\* and subscriptions, and is_emergency_active, current_emergency and
\* emergency_history, as they were.
C25_QueriesChangeNothing ==
    [][(\/ (GetActiveAlerts \/ GetAlertStatistics) /\ UNCHANGED esvars
        \/ /\ \/ GetEmergencyStatus
              \/ \E sensor_data \in Readings : CheckEmergencyConditions(sensor_data)
           /\ UNCHANGED amvars)
       => UNCHANGED <<active_alerts, acknowledged_alerts, escalation_tasks, alert_history,
                      subscriptions, timers, sends, is_emergency_active, current_emergency,
                      emergency_history, runs>>]_vars

\* Both classes have been queried with something to report: an alert
\* acknowledged and then resolved, an emergency under way
C25_Witness ==
    /\ last_call = StatisticsCall
    /\ es_call.op = "status"
    /\ get_alert_statistics.total_alerts > get_alert_statistics.active_alerts
    /\ acknowledged_alerts \ DOMAIN active_alerts # {}
    /\ get_active_alerts # {}
    /\ get_emergency_status.is_active
    /\ get_emergency_status.emergency_count > 0

----------------------------------------------------------------------------
(* The timer that has fired, under Spec *)

\* Timer k wakes in this step
Fires(k) == timers[k].state = "sleeping" /\ timers'[k].state # "sleeping"
                /\ timers'[k].state # "cancelled"

\* C26: when the timer of an alert fires, the alert stays in active_alerts
\* as it was, and from then on escalation_tasks has no key for its id.
C26_FiredTimerUntracked ==
    [][\A k \in 1..Len(timers) :
          Fires(k)
          => /\ timers[k].alert_id \in DOMAIN active_alerts
                => /\ timers[k].alert_id \in DOMAIN active_alerts'
                   /\ active_alerts'[timers[k].alert_id] = active_alerts[timers[k].alert_id]
             /\ timers[k].alert_id \notin DOMAIN escalation_tasks']_vars

----------------------------------------------------------------------------
(* The tracking table and the active set, under Spec *)

\* C27: every id that has an entry in escalation_tasks is a key of
\* active_alerts, whatever the order in which send_alert, its return after
\* the deliveries, acknowledge_alert, resolve_alert and the timers run.
C27_TrackedIsActive ==
    DOMAIN escalation_tasks \subseteq DOMAIN active_alerts

----------------------------------------------------------------------------
(* The chain of escalations, under PolicySpec: nothing is acknowledged or *)
(* resolved                                                                *)

\* The send_alert invocations made by a timer
EscalatedAlerts == {j \in 1..Len(alert_history) : sends[j].caller # 0}

\* The timers send_alert invocation j set up
TimersOf(j) == {k \in 1..Len(timers) : timers[k].owner = j}

\* C28: an escalated alert is an EMERGENCY alert that requires acknowledgment
\* and has a delay of 60 seconds; when its send_alert has returned it has one
\* timer of its own, of 60 seconds; with nothing acknowledged or resolved,
\* that timer raises the next escalated alert once its deadline is reached,
\* not earlier, and no alert of the chain is escalated twice.
C28_EscalationChain ==
    /\ \A j \in EscalatedAlerts :
          LET alert == alert_history[j]
          IN /\ alert.severity = EMERGENCY
             /\ alert.requires_acknowledgment
             /\ alert.auto_escalate_after = EscalateEmergency
             /\ sends[j].pc = "returned" => Cardinality(TimersOf(j)) = 1
             /\ \A k \in TimersOf(j) :
                   /\ timers[k].alert_id = alert.id
                   /\ timers[k].delay_seconds = EscalateEmergency
                   /\ timers[k].deadline >= alert.timestamp + EscalateEmergency
             /\ \A h \in RaisedFor(j) :
                   /\ alert_history[h].about = alert.id
                   /\ alert_history[h].timestamp >= alert.timestamp + EscalateEmergency
             /\ (sends[j].pc = "returned" /\ ~TimerPending(j)) => RaisedFor(j) # {}
    /\ \A i \in 1..Len(alert_history) : Cardinality(RaisedFor(i)) <= 1

\* An escalated alert has been escalated in turn, 60 seconds after it was
\* raised
C28_Witness ==
    \E j \in EscalatedAlerts :
        \E h \in RaisedFor(j) :
            /\ h \in EscalatedAlerts
            /\ alert_history[h].severity = EMERGENCY
            /\ alert_history[h].timestamp = alert_history[j].timestamp + EscalateEmergency
            /\ alert_history[j].id \in DOMAIN active_alerts

----------------------------------------------------------------------------
(* The state of the emergency stop system, under EmergencySpec *)

\* The flag and the current event agree, and the current event is the last
\* of the history
StateConsistent ==
    /\ is_emergency_active <=> current_emergency # NoEvent
    /\ is_emergency_active
       => /\ emergency_history # <<>>
          /\ current_emergency = emergency_history[Len(emergency_history)]

\* C29: is_emergency_active is true exactly when current_emergency is not
\* None, and then current_emergency is the last element of
\* emergency_history; an accepted trigger_emergency_stop appends exactly its
\* event to emergency_history, and no other step, reset_emergency included,
\* changes the history.
C29_StateConsistent ==
    /\ []StateConsistent
    /\ [][IF es_call'.op = "trigger" /\ es_call'.accepted /\ runs' # runs
          THEN emergency_history' = Append(emergency_history, es_call'.event)
          ELSE emergency_history' = emergency_history]_vars

\* reset_emergency has ended the second emergency, a higher one accepted
\* over a lower, and the history holds both
C29_Witness ==
    /\ es_call.op = "reset"
    /\ es_call.accepted
    /\ ~is_emergency_active
    /\ current_emergency = NoEvent
    /\ Len(emergency_history) = 2
    /\ emergency_history[1].level < emergency_history[2].level

----------------------------------------------------------------------------
(* reset_emergency and the response sequence in flight, under ResetSpec *)

\* The response sequences of the emergencies that have been reset
ResetResponses == {r \in 1..Len(runs) : runs[r].kind = "stop" /\ runs[r].reset}

\* C30 as written: once reset_emergency has made the system idle, the
\* response sequence of the emergency that was reset invokes no stop
\* callback and no alert callback any more.
C30_NoCallbackAfterReset ==
    [][\A r \in ResetResponses : runs'[r].trace = runs[r].trace]_vars

\* Every response sequence of a reset emergency has executed a beginning of
\* the sequence of its level, and the whole of it when it is over
ResetResponsesWhole ==
    \A r \in ResetResponses :
        LET done == Executed(runs[r])
            whole == WholeSequence(runs[r].event.level)
        IN /\ Len(done) <= Len(whole)
           /\ \A i \in 1..Len(done) : done[i] = whole[i]
           /\ Finished(runs[r]) => done = whole

\* C30 amended: reset_emergency does not stop the response sequence of the
\* emergency it resets.  It leaves every sequence in flight where it stands;
\* a sequence of a reset emergency resumes like any other, invoking the
\* callbacks it had not reached, each once and in order, and is over only
\* when the whole sequence of its level has been executed.
C30_ResetLeavesResponseRunning ==
    [][/\ (es_call'.op = "reset" /\ es_call'.accepted /\ Len(runs') = Len(runs) + 1)
          => \A r \in 1..Len(runs) : runs'[r] = [runs[r] EXCEPT !.reset = TRUE]
       /\ \A r \in ResetResponses :
             runs'[r] # runs[r]
             => /\ runs'[r] = RunOn(runs[r])
                /\ Len(runs'[r].trace) >= Len(runs[r].trace)
       /\ ResetResponsesWhole']_vars

\* The system is idle, the reset's alert has reached the first of two alert
\* callbacks only, and the step before this state resumed the response
\* sequence of the reset emergency, which is now over, its whole sequence
\* executed
C30_Witness ==
    /\ ~is_emergency_active
    /\ es_call = OtherOperation
    /\ Len(runs) = 2
    /\ runs[1].kind = "stop"
    /\ 1 \in ResetResponses
    /\ Finished(runs[1])
    /\ Executed(runs[1]) = WholeSequence(runs[1].event.level)
    /\ runs[2].kind = "reset"
    /\ Len(alert_callbacks) = 2
    /\ Len(runs[2].trace) = 1

====
